---- MODULE Spec2Model ----
(***************************************************************************)
(* Migration runner of Flask-app/migrations/migrate.py.                    *)
(*                                                                         *)
(* One database (ledger table applied_migrations plus the schema the       *)
(* scripts change), one migrations directory that developers add files to  *)
(* between runs, and a sequence of runs of apply_migrations(), each        *)
(* stepped through the statements of the function that touch the           *)
(* connection, the transaction or the file system.                         *)
(***************************************************************************)
EXTENDS Integers, Sequences, FiniteSets, TLC

VARIABLES
    dir,               \* names of the files in the migrations directory
    db,                \* committed database state: [table, ledger, schema]
    tx,                \* the connection's open transaction: [table, rows, effects]
    conn,              \* "none" (conn = None), "open", "closed"
    autocommit,        \* conn.autocommit of the acquired connection
    pc,                \* position of the run inside apply_migrations
    err,               \* exception in flight: "none", "db" (psycopg2.Error), "other"
    applied_versions,  \* the set read at line 65
    migration_files,   \* the sorted list built at line 70
    fi,                \* index of the loop of line 73 into migration_files
    sql_commands,      \* the statements of the current script (line 90)
    ci,                \* index of the loop of line 92 into sql_commands
    runs,              \* number of runs started so far
    startLedger,       \* history: db.ledger when the current run started
    executed,          \* history: <<file, i>> for every statement executed by this run
    fail,              \* history: where the current run failed: [step, file, cmd]
    rolledBack,        \* history: conn.rollback() was called after the failure
    added,             \* history: a file was added since the last run started
    prevDone,          \* history: the previous run ended Done and no file was added since
    database_url,      \* os.environ.get('DATABASE_URL') as line 12 found it
    errContext,        \* what the exception in flight carries besides the driver's error
    diag,              \* the error lines the run has printed: what each identifies
    peer               \* the locals of a second process running the script

vars == <<dir, db, tx, conn, autocommit, pc, err, applied_versions, migration_files,
          fi, sql_commands, ci, runs, startLedger, executed, fail, rolledBack, added,
          prevDone, database_url, errContext, diag, peer>>

\* Number of runs of the script that are explored.
MaxRuns == 3

\* Number of files the migrations directory holds at most.
MaxDir == 4

----------------------------------------------------------------------------
(* File names are strings, modelled as sequences of character codes so that *)
(* sorted(), endswith() and split('_') are computed, not assumed.           *)

\* "0_c.sql"
F0c == <<48, 95, 99, 46, 115, 113, 108>>
\* "1_a.sql"
F1a == <<49, 95, 97, 46, 115, 113, 108>>
\* "1_b.sql": shares the version token "1" with F1a
F1b == <<49, 95, 98, 46, 115, 113, 108>>
\* "2_e.sql"
F2e == <<50, 95, 101, 46, 115, 113, 108>>
\* "3_d.sql"
F3d == <<51, 95, 100, 46, 115, 113, 108>>
\* "4_n.txt": not a migration script
F4n == <<52, 95, 110, 46, 116, 120, 116>>

AllFiles == {F0c, F1a, F1b, F2e, F3d, F4n}

\* The text of each file: a sequence of tokens, ";" the statement terminator,
\* " " white space, anything else a piece of SQL.
ScriptBody(name) ==
    CASE name = F0c -> <<"A", ";", " ", "B", ";", "C", ";", " ">>
      [] name = F1a -> <<"E", " ", "F">>
      [] name = F1b -> <<" ", "D", ";", "B", ";", " ", "C", ";">>
      [] name = F2e -> <<" ", ";", ";", " ">>
      [] name = F3d -> <<"G", ";", "H">>
      [] OTHER      -> <<"x">>

----------------------------------------------------------------------------
(* Pure helpers of the run.                                                 *)

\* str < str of Python: lexicographic order on code points.
RECURSIVE LexLess(_, _)
LexLess(a, b) ==
    IF a = <<>> THEN b # <<>>
    ELSE IF b = <<>> THEN FALSE
    ELSE IF Head(a) < Head(b) THEN TRUE
    ELSE IF Head(a) > Head(b) THEN FALSE
    ELSE LexLess(Tail(a), Tail(b))

RECURSIVE InsertSorted(_, _)
InsertSorted(x, s) ==
    IF s = <<>> THEN <<x>>
    ELSE IF LexLess(x, Head(s)) THEN <<x>> \o s
    ELSE <<Head(s)>> \o InsertSorted(x, Tail(s))

RECURSIVE SortNames(_)
SortNames(s) ==
    IF s = <<>> THEN <<>> ELSE InsertSorted(Head(s), SortNames(Tail(s)))

\* Faulty variant of sorted(): the directory listing is used in the order it came.
UnsortedNames(listing) == listing

\* sorted(...) of line 70.
sorted(listing) == SortNames(listing)

\* Faulty variant of line 70: every file of the directory is taken.
AnyFile(name) == TRUE

\* f.endswith('.sql') of line 70.
EndsWithSql(name) ==
    /\ Len(name) >= 4
    /\ SubSeq(name, Len(name) - 3, Len(name)) = <<46, 115, 113, 108>>

\* [f for f in os.listdir(migrations_dir) if f.endswith('.sql')] of line 70.
SqlFiles(listing) == SelectSeq(listing, EndsWithSql)

\* filename.split('_')[0] of line 74: the text before the first underscore,
\* the whole name when it holds none.
RECURSIVE VersionOf(_)
VersionOf(name) ==
    IF name = <<>> \/ Head(name) = 95 THEN <<>>
    ELSE <<Head(name)>> \o VersionOf(Tail(name))

\* sql_script.split(';') of line 90.
RECURSIVE SplitPieces(_, _)
SplitPieces(s, cur) ==
    IF s = <<>> THEN <<cur>>
    ELSE IF Head(s) = ";" THEN <<cur>> \o SplitPieces(Tail(s), <<>>)
    ELSE SplitPieces(Tail(s), Append(cur, Head(s)))

\* cmd.strip() of line 90.
RECURSIVE StripLeft(_)
StripLeft(p) == IF p # <<>> /\ Head(p) = " " THEN StripLeft(Tail(p)) ELSE p

RECURSIVE StripRight(_)
StripRight(p) ==
    IF p # <<>> /\ p[Len(p)] = " " THEN StripRight(SubSeq(p, 1, Len(p) - 1)) ELSE p

Strip(p) == StripRight(StripLeft(p))

RECURSIVE MapStrip(_)
MapStrip(ps) == IF ps = <<>> THEN <<>> ELSE <<Strip(Head(ps))>> \o MapStrip(Tail(ps))

NonEmpty(p) == p # <<>>

\* Faulty variant of line 90: the empty pieces are kept.
SplitKeepEmpty(body) == MapStrip(SplitPieces(body, <<>>))

\* [cmd.strip() for cmd in sql_script.split(';') if cmd.strip()] of line 90.
SplitCommands(body) == SelectSeq(MapStrip(SplitPieces(body, <<>>)), NonEmpty)

\* The orders os.listdir may return the files of the directory in.
Listings(S) ==
    {s \in [1..Cardinality(S) -> S] :
        \A i, j \in 1..Cardinality(S) : i # j => s[i] # s[j]}

Range(s) == {s[i] : i \in 1..Len(s)}

----------------------------------------------------------------------------
(* The database: committed state and the connection's open transaction.     *)

EmptyTx == [table |-> FALSE, rows |-> <<>>, effects |-> {}]

\* The versions of a sequence of ledger rows.
Versions(rows) == {rows[i].version : i \in 1..Len(rows)}

\* Faulty variant of conn.commit(): nothing is made durable, the transaction goes on.
CommitNothing(d, t) == [db |-> d, tx |-> t]

\* conn.commit(): everything the transaction did becomes durable.
Commit(d, t) ==
    [db |-> [table  |-> d.table \/ t.table,
             ledger |-> d.ledger \o t.rows,
             schema |-> d.schema \cup t.effects],
     tx |-> EmptyTx]

\* conn.rollback(): everything the transaction did is discarded.
Rollback(d, t) == [db |-> d, tx |-> EmptyTx]

\* cursor.execute of a statement that succeeds: its work joins the open
\* transaction, which an autocommit connection makes durable at once.
Run(d, t, ac, work) ==
    LET t2 == [table   |-> t.table \/ work.table,
               rows    |-> t.rows \o work.rows,
               effects |-> t.effects \cup work.effects]
    IN IF ac THEN Commit(d, t2) ELSE [db |-> d, tx |-> t2]

\* Faulty variant of get_db_connection: the connection commits every statement.
GetDbConnectionAuto(urlSet) == [autocommit |-> TRUE]

\* Faulty variant of get_db_connection: the connection of the local default
\* commits every statement.
GetDbConnectionFallbackAuto(urlSet) == [autocommit |-> ~urlSet]

\* get_db_connection: psycopg2.connect returns a connection with autocommit
\* off (line 18), and line 41 sets it off again on the DATABASE_URL path.
GetDbConnection(urlSet) ==
    IF ~urlSet THEN [autocommit |-> FALSE] ELSE [autocommit |-> FALSE]

\* Faulty variant of the UNIQUE constraint of line 57: every insert is accepted.
NoUnique(d, t, version) == FALSE

\* version TEXT UNIQUE of line 57: an insert of a version the table (or the
\* open transaction) already holds violates the constraint.
UniqueViolation(d, t, version) ==
    version \in Versions(d.ledger) \cup Versions(t.rows)

NoFail == [step |-> "none", file |-> <<>>, cmd |-> 0]

\* An exception, or a printed line, that names no script and no statement.
NoContext == [script |-> <<>>, statement |-> 0]

\* Faulty variant of line 100: the error is wrapped with the script and the
\* statement before it is raised again.
WrapContext(c, f, k) == [script |-> f, statement |-> k]

\* raise of line 100: the exception caught is raised again as it is.
ReraiseContext(c, f, k) == c

\* print of line 98: the line names the file and the driver's error.
ErrorLine(f, k) == [script |-> f, statement |-> 0]

\* The state of a process that has not entered apply_migrations.
IdleLocals ==
    [conn |-> "none", autocommit |-> FALSE, tx |-> EmptyTx, pc |-> "idle",
     err |-> "none", applied_versions |-> {}, migration_files |-> <<>>, fi |-> 1,
     sql_commands |-> <<>>, ci |-> 1, startLedger |-> <<>>, executed |-> {},
     fail |-> NoFail, rolledBack |-> FALSE, database_url |-> "unread",
     errContext |-> NoContext, diag |-> {}]

----------------------------------------------------------------------------
Init ==
    /\ dir = {}
    /\ db = [table |-> FALSE, ledger |-> <<>>, schema |-> {}]
    /\ tx = EmptyTx
    /\ conn = "none"
    /\ autocommit = FALSE
    /\ pc = "idle"
    /\ err = "none"
    /\ applied_versions = {}
    /\ migration_files = <<>>
    /\ fi = 1
    /\ sql_commands = <<>>
    /\ ci = 1
    /\ runs = 0
    /\ startLedger = <<>>
    /\ executed = {}
    /\ fail = NoFail
    /\ rolledBack = FALSE
    /\ added = FALSE
    /\ prevDone = FALSE
    /\ database_url = "unread"
    /\ errContext = NoContext
    /\ diag = {}
    /\ peer = IdleLocals

Terminal == pc \in {"Done", "Aborted"}
Resting == pc = "idle" \/ Terminal

runLocals == <<applied_versions, migration_files, fi, sql_commands, ci>>
history == <<runs, startLedger, executed, fail, rolledBack, added, prevDone>>
extras == <<database_url, errContext, diag, peer>>

\* A developer adds a migration file; the runner never changes the directory.
AddFile ==
    /\ Resting
    /\ runs < MaxRuns
    /\ Cardinality(dir) < MaxDir
    /\ \E f \in AllFiles \ dir : dir' = dir \cup {f}
    /\ added' = TRUE
    /\ UNCHANGED <<db, tx, conn, autocommit, pc, err, runLocals,
                   runs, startLedger, executed, fail, rolledBack, prevDone>>
    /\ UNCHANGED extras

\* python migrate.py: apply_migrations() is entered (line 48).
StartRun ==
    /\ Resting
    /\ runs < MaxRuns
    /\ runs' = runs + 1
    /\ pc' = "connect"
    /\ conn' = "none"
    /\ err' = "none"
    /\ tx' = EmptyTx
    /\ applied_versions' = {}
    /\ migration_files' = <<>>
    /\ fi' = 1
    /\ sql_commands' = <<>>
    /\ ci' = 1
    /\ startLedger' = db.ledger
    /\ executed' = {}
    /\ fail' = NoFail
    /\ rolledBack' = FALSE
    /\ prevDone' = (pc = "Done" /\ ~added)
    /\ added' = FALSE
    /\ database_url' = "unread"
    /\ errContext' = NoContext
    /\ diag' = {}
    /\ UNCHANGED <<dir, db, autocommit, peer>>

\* The exception handlers are entered with the error e raised at step s.
Raise(e, s, f, c) ==
    /\ err' = e
    /\ fail' = [step |-> s, file |-> f, cmd |-> c]
    /\ pc' = "except"

\* Line 50: conn = get_db_connection(); line 51: cursor = conn.cursor().
Connect ==
    /\ pc = "connect"
    /\ \E urlSet \in BOOLEAN :
          /\ database_url' = IF urlSet THEN "set" ELSE "unset"
          /\ \/ /\ conn' = "open"
                /\ autocommit' = GetDbConnection(urlSet).autocommit
                /\ pc' = "create"
                /\ UNCHANGED <<err, fail>>
             \/ /\ Raise("db", "connect", <<>>, 0)
                /\ UNCHANGED <<conn, autocommit>>
    /\ UNCHANGED <<dir, db, tx, runLocals, runs, startLedger, executed,
                   rolledBack, added, prevDone>>
    /\ UNCHANGED <<errContext, diag, peer>>

\* Lines 54-60: CREATE TABLE IF NOT EXISTS applied_migrations.
CreateTable ==
    /\ pc = "create"
    /\ \/ LET r == Run(db, tx, autocommit,
                       [table |-> ~db.table, rows |-> <<>>, effects |-> {}])
          IN /\ db' = r.db
             /\ tx' = r.tx
             /\ pc' = "commit_table"
             /\ UNCHANGED <<err, fail>>
       \/ /\ Raise("db", "create", <<>>, 0)
          /\ UNCHANGED <<db, tx>>
    /\ UNCHANGED <<dir, conn, autocommit, runLocals, runs, startLedger, executed,
                   rolledBack, added, prevDone>>
    /\ UNCHANGED extras

\* Faulty variant of line 61: the table creation is left in the transaction
\* of the first script.
CommitTableSkipped ==
    /\ pc = "commit_table"
    /\ pc' = "select"
    /\ UNCHANGED <<dir, db, tx, conn, autocommit, err, runLocals, history, extras>>

\* Line 61: conn.commit() of the table creation.
CommitTable ==
    /\ pc = "commit_table"
    /\ \/ LET r == Commit(db, tx)
          IN /\ db' = r.db
             /\ tx' = r.tx
             /\ pc' = "select"
             /\ UNCHANGED <<err, fail>>
       \/ /\ Raise("db", "commit_table", <<>>, 0)
          /\ UNCHANGED <<db, tx>>
    /\ UNCHANGED <<dir, conn, autocommit, runLocals, runs, startLedger, executed,
                   rolledBack, added, prevDone>>
    /\ UNCHANGED extras

\* Lines 64-65: applied_versions = the versions of the ledger.
SelectApplied ==
    /\ pc = "select"
    /\ \/ /\ applied_versions' = Versions(db.ledger)
          /\ pc' = "listdir"
          /\ UNCHANGED <<err, fail>>
       \/ /\ Raise("db", "select", <<>>, 0)
          /\ UNCHANGED applied_versions
    /\ UNCHANGED <<dir, db, tx, conn, autocommit, migration_files, fi, sql_commands,
                   ci, runs, startLedger, executed, rolledBack, added, prevDone>>
    /\ UNCHANGED extras

\* Lines 69-70: migration_files = sorted(the .sql files of os.listdir(...)).
ListDir ==
    /\ pc = "listdir"
    /\ \/ \E listing \in Listings(dir) :
            /\ migration_files' = sorted(SqlFiles(listing))
            /\ fi' = 1
            /\ pc' = "loop"
            /\ UNCHANGED <<err, fail>>
       \/ /\ Raise("other", "listdir", <<>>, 0)
          /\ UNCHANGED <<migration_files, fi>>
    /\ UNCHANGED <<dir, db, tx, conn, autocommit, applied_versions, sql_commands,
                   ci, runs, startLedger, executed, rolledBack, added, prevDone>>
    /\ UNCHANGED extras

\* The file the loop of line 73 is at.
filename == migration_files[fi]

\* Faulty variant of line 76: no script is taken as applied.
NeverApplied(version, applied) == FALSE

\* Faulty variant of line 76: a version that sorts before an applied one is
\* passed over as well.
AppliedOrStale(version, applied) ==
    version \in applied \/ \E v \in applied : LexLess(version, v)

\* Line 76: version in applied_versions.
AlreadyApplied(version, applied) == version \in applied

\* Lines 73-78: the version of the file is in applied_versions: continue.
SkipApplied ==
    /\ pc = "loop"
    /\ fi <= Len(migration_files)
    /\ AlreadyApplied(VersionOf(filename), applied_versions)
    /\ fi' = fi + 1
    /\ UNCHANGED <<dir, db, tx, conn, autocommit, pc, err, applied_versions,
                   migration_files, sql_commands, ci, history>>
    /\ UNCHANGED extras

\* Lines 80-90: the file is read and split into its statements.
ReadScript ==
    /\ pc = "loop"
    /\ fi <= Len(migration_files)
    /\ ~AlreadyApplied(VersionOf(filename), applied_versions)
    /\ \/ /\ sql_commands' = SplitCommands(ScriptBody(filename))
          /\ ci' = 1
          /\ pc' = IF sql_commands' = <<>> THEN "insert" ELSE "exec"
          /\ UNCHANGED <<err, fail>>
       \/ /\ Raise("other", "read", filename, 0)
          /\ UNCHANGED <<sql_commands, ci>>
    /\ UNCHANGED <<dir, db, tx, conn, autocommit, applied_versions, migration_files,
                   fi, runs, startLedger, executed, rolledBack, added, prevDone>>
    /\ UNCHANGED extras

\* Lines 92-96: cursor.execute(command), which succeeds or raises
\* psycopg2.Error into the handler of line 97.
ExecCommand ==
    /\ pc = "exec"
    /\ executed' = executed \cup {<<filename, ci>>}
    /\ \/ LET r == Run(db, tx, autocommit,
                       [table |-> FALSE, rows |-> <<>>,
                        effects |-> {<<filename, ci>>}])
          IN /\ db' = r.db
             /\ tx' = r.tx
             /\ ci' = ci + 1
             /\ pc' = IF ci = Len(sql_commands) THEN "insert" ELSE "exec"
             /\ UNCHANGED <<err, fail>>
       \/ /\ err' = "db"
          /\ fail' = [step |-> "exec", file |-> filename, cmd |-> ci]
          /\ pc' = "stmt_error"
          /\ UNCHANGED <<db, tx, ci>>
    /\ UNCHANGED <<dir, conn, autocommit, applied_versions, migration_files, fi,
                   sql_commands, runs, startLedger, rolledBack, added, prevDone>>
    /\ UNCHANGED extras

\* Faulty variant of lines 97-100: the error is logged and the loop of line 92 goes
\* on with the next statement.
StmtErrorSwallowed ==
    /\ pc = "stmt_error"
    /\ err' = "none"
    /\ ci' = ci + 1
    /\ pc' = IF ci = Len(sql_commands) THEN "insert" ELSE "exec"
    /\ UNCHANGED <<dir, db, tx, conn, autocommit, applied_versions, migration_files,
                   fi, sql_commands, history>>
    /\ UNCHANGED extras

\* Lines 97-100: conn.rollback() and re-raise into the handler of line 107.
StmtError ==
    /\ pc = "stmt_error"
    /\ LET r == Rollback(db, tx)
       IN /\ db' = r.db
          /\ tx' = r.tx
    /\ rolledBack' = TRUE
    /\ pc' = "except"
    /\ UNCHANGED <<dir, conn, autocommit, err, runLocals, runs, startLedger,
                   executed, fail, added, prevDone>>
    /\ errContext' = ReraiseContext(errContext, filename, ci)
    /\ diag' = diag \cup {ErrorLine(filename, ci)}
    /\ UNCHANGED <<database_url, peer>>

\* The UNIQUE index of line 57 makes an insert wait while another connection
\* holds an uncommitted row of the same version.
InsertWaits(version) == version \in Versions(peer.tx.rows)

\* Line 103: INSERT INTO applied_migrations (version).
InsertLedger ==
    /\ pc = "insert"
    /\ ~InsertWaits(VersionOf(filename))
    /\ \/ /\ ~UniqueViolation(db, tx, VersionOf(filename))
          /\ LET r == Run(db, tx, autocommit,
                          [table |-> FALSE,
                           rows |-> <<[version |-> VersionOf(filename),
                                       by |-> filename]>>,
                           effects |-> {}])
             IN /\ db' = r.db
                /\ tx' = r.tx
          /\ pc' = "commit"
          /\ UNCHANGED <<err, fail>>
       \/ /\ Raise("db", "insert", filename, 0)
          /\ UNCHANGED <<db, tx>>
    /\ UNCHANGED <<dir, conn, autocommit, runLocals, runs, startLedger, executed,
                   rolledBack, added, prevDone>>
    /\ UNCHANGED extras

\* Faulty variant of line 104: the version just committed joins
\* applied_versions.
CommitScriptRemembered ==
    /\ pc = "commit"
    /\ LET r == Commit(db, tx)
       IN /\ db' = r.db
          /\ tx' = r.tx
    /\ applied_versions' = applied_versions \cup {VersionOf(filename)}
    /\ fi' = fi + 1
    /\ pc' = "loop"
    /\ UNCHANGED <<dir, conn, autocommit, err, migration_files, sql_commands, ci,
                   history, extras>>

\* Line 104: conn.commit() of the script and its ledger row.
CommitScript ==
    /\ pc = "commit"
    /\ \/ LET r == Commit(db, tx)
          IN /\ db' = r.db
             /\ tx' = r.tx
             /\ fi' = fi + 1
             /\ pc' = "loop"
             /\ UNCHANGED <<err, fail>>
       \/ /\ Raise("db", "commit", filename, 0)
          /\ UNCHANGED <<db, tx, fi>>
    /\ UNCHANGED <<dir, conn, autocommit, applied_versions, migration_files,
                   sql_commands, ci, runs, startLedger, executed, rolledBack,
                   added, prevDone>>
    /\ UNCHANGED extras

\* Line 73: the list is exhausted; the try block ends without an exception.
LoopEnd ==
    /\ pc = "loop"
    /\ fi > Len(migration_files)
    /\ pc' = "finally"
    /\ UNCHANGED <<dir, db, tx, conn, autocommit, err, runLocals, history>>
    /\ UNCHANGED extras

\* Faulty variant of the handlers: the error is re-raised without a rollback.
HandlerNoRollback ==
    /\ pc' = "finally"
    /\ UNCHANGED <<dir, db, tx, conn, autocommit, err, runLocals, history>>
    /\ UNCHANGED extras

\* What both handlers do: if conn: conn.rollback(); raise.
HandlerBody ==
    /\ IF conn = "open"
         THEN LET r == Rollback(db, tx)
              IN /\ db' = r.db
                 /\ tx' = r.tx
                 /\ rolledBack' = TRUE
         ELSE UNCHANGED <<db, tx, rolledBack>>
    /\ pc' = "finally"
    /\ UNCHANGED <<dir, conn, autocommit, err, runLocals, runs, startLedger,
                   executed, fail, added, prevDone>>
    /\ diag' = diag \cup {NoContext}
    /\ UNCHANGED <<database_url, errContext, peer>>

\* Lines 107-111: except psycopg2.Error.
ExceptDb ==
    /\ pc = "except"
    /\ err = "db"
    /\ HandlerBody

\* Faulty variant of lines 112-116: the error is re-raised without a rollback.
ExceptOtherNoRollback ==
    /\ pc = "except"
    /\ err = "other"
    /\ pc' = "finally"
    /\ UNCHANGED <<dir, db, tx, conn, autocommit, err, runLocals, history, extras>>

\* Faulty variant of lines 112-116: the error is printed, not re-raised.
ExceptOtherSwallowed ==
    /\ pc = "except"
    /\ err = "other"
    /\ err' = "none"
    /\ pc' = "finally"
    /\ UNCHANGED <<dir, db, tx, conn, autocommit, runLocals, history>>
    /\ UNCHANGED extras

\* Lines 112-116: except Exception.
ExceptOther ==
    /\ pc = "except"
    /\ err = "other"
    /\ HandlerBody

\* Faulty variant of the finally block: the connection is closed on success only.
CloseOnSuccess(c, e) == IF c = "open" /\ e = "none" THEN "closed" ELSE c

\* Lines 118-119: if conn: conn.close().
CloseConn(c, e) == IF c = "open" THEN "closed" ELSE c

\* Lines 117-120: finally; the run returns (Done) or re-raises (Aborted).  A
\* closed connection's open transaction is discarded by the server.
Finally ==
    /\ pc = "finally"
    /\ conn' = CloseConn(conn, err)
    /\ tx' = IF conn' = "closed" THEN EmptyTx ELSE tx
    /\ pc' = IF err = "none" THEN "Done" ELSE "Aborted"
    /\ UNCHANGED <<dir, db, autocommit, err, runLocals, history>>
    /\ UNCHANGED extras

\* Lines 122-129: the exit status of the process: 0 when apply_migrations
\* returns, exit(1) when it raises.
ExitStatus(outcome) == IF outcome = "Done" THEN 0 ELSE 1

RunStep ==
    \/ Connect
    \/ CreateTable
    \/ CommitTable
    \/ SelectApplied
    \/ ListDir
    \/ SkipApplied
    \/ ReadScript
    \/ ExecCommand
    \/ StmtError
    \/ InsertLedger
    \/ CommitScript
    \/ LoopEnd
    \/ ExceptDb
    \/ ExceptOther
    \/ Finally

Next ==
    \/ AddFile
    \/ StartRun
    \/ Connect
    \/ CreateTable
    \/ CommitTable
    \/ SelectApplied
    \/ ListDir
    \/ SkipApplied
    \/ ReadScript
    \/ ExecCommand
    \/ StmtError
    \/ InsertLedger
    \/ CommitScript
    \/ LoopEnd
    \/ ExceptDb
    \/ ExceptOther
    \/ Finally

Spec == Init /\ [][Next]_vars

\* The locals of the process that is taking steps.
CurrentLocals ==
    [conn |-> conn, autocommit |-> autocommit, tx |-> tx, pc |-> pc, err |-> err,
     applied_versions |-> applied_versions, migration_files |-> migration_files,
     fi |-> fi, sql_commands |-> sql_commands, ci |-> ci,
     startLedger |-> startLedger, executed |-> executed, fail |-> fail,
     rolledBack |-> rolledBack, database_url |-> database_url,
     errContext |-> errContext, diag |-> diag]

\* Two processes run the script against one database, nothing coordinating
\* them: the scheduler turns from one process to the other at any point.
Switch ==
    /\ peer' = CurrentLocals
    /\ conn' = peer.conn
    /\ autocommit' = peer.autocommit
    /\ tx' = peer.tx
    /\ pc' = peer.pc
    /\ err' = peer.err
    /\ applied_versions' = peer.applied_versions
    /\ migration_files' = peer.migration_files
    /\ fi' = peer.fi
    /\ sql_commands' = peer.sql_commands
    /\ ci' = peer.ci
    /\ startLedger' = peer.startLedger
    /\ executed' = peer.executed
    /\ fail' = peer.fail
    /\ rolledBack' = peer.rolledBack
    /\ database_url' = peer.database_url
    /\ errContext' = peer.errContext
    /\ diag' = peer.diag
    /\ UNCHANGED <<dir, db, runs, added, prevDone>>

\* The directories the two processes are run over.
ConcDirs == {{F1a}, {F2e}, {F1a, F1b}, {F1a, F3d}}

ConcInit ==
    /\ dir \in ConcDirs
    /\ db = [table |-> FALSE, ledger |-> <<>>, schema |-> {}]
    /\ tx = EmptyTx
    /\ conn = "none"
    /\ autocommit = FALSE
    /\ pc = "idle"
    /\ err = "none"
    /\ applied_versions = {}
    /\ migration_files = <<>>
    /\ fi = 1
    /\ sql_commands = <<>>
    /\ ci = 1
    /\ runs = 0
    /\ startLedger = <<>>
    /\ executed = {}
    /\ fail = NoFail
    /\ rolledBack = FALSE
    /\ added = FALSE
    /\ prevDone = FALSE
    /\ database_url = "unread"
    /\ errContext = NoContext
    /\ diag = {}
    /\ peer = IdleLocals

ConcNext ==
    \/ StartRun
    \/ Switch
    \/ Connect
    \/ CreateTable
    \/ CommitTable
    \/ SelectApplied
    \/ ListDir
    \/ SkipApplied
    \/ ReadScript
    \/ ExecCommand
    \/ StmtError
    \/ InsertLedger
    \/ CommitScript
    \/ LoopEnd
    \/ ExceptDb
    \/ ExceptOther
    \/ Finally

\* Runs of two processes, interleaved.
ConcSpec == ConcInit /\ [][ConcNext]_vars

\* Every statement returns and the interpreter keeps running the function.
FairSpec == Spec /\ WF_vars(RunStep)

----------------------------------------------------------------------------
(* Vocabulary of the properties.                                            *)

\* The statements of a script, as the marks their execution leaves.
EffectsOf(f) == {<<f, i>> : i \in 1..Len(SplitCommands(ScriptBody(f)))}

\* The committed effects of a script.
CommittedOf(f) == {e \in db.schema : e[1] = f}

\* The committed ledger rows a script inserted.
RowsBy(f) == {i \in 1..Len(db.ledger) : db.ledger[i].by = f}

\* The committed ledger rows of a version.
RowsOf(v) == {i \in 1..Len(db.ledger) : db.ledger[i].version = v}

\* The rows the current run has committed.
NewRows == (Len(startLedger) + 1)..Len(db.ledger)

\* The migration scripts of the directory.
Scripts == {f \in dir : EndsWithSql(f)}

\* No other script of the directory carries the version token of f.
SoleVersion(f) == \A g \in Scripts : VersionOf(g) = VersionOf(f) => g = f

\* The position of a file in the sorted list of the run (0 when absent).
IndexOf(f) ==
    IF f \in Range(migration_files)
      THEN CHOOSE i \in 1..Len(migration_files) : migration_files[i] = f
      ELSE 0

ScriptSteps == {"read", "exec", "insert", "commit"}
SetupSteps == {"connect", "create", "commit_table", "select", "listdir"}

----------------------------------------------------------------------------
\* C1: in every committed database state a script's statements are durable
\* all together with a ledger row of its version or not at all: a script has
\* statements committed only if it has inserted a ledger row, a ledger row
\* carries the version of the script that inserted it and stands for all of
\* that script's statements, and a version is in the ledger exactly when a
\* script carrying it has been committed in full (for a token that one script
\* alone carries: exactly when that script has).
C1_LedgerAtomic ==
    /\ \A f \in AllFiles :
          /\ CommittedOf(f) \in {{}, EffectsOf(f)}
          /\ CommittedOf(f) # {} => RowsBy(f) # {}
          /\ RowsBy(f) # {} => /\ CommittedOf(f) = EffectsOf(f)
                               /\ f \in Scripts
          /\ (f \in Scripts /\ SoleVersion(f)) =>
                (VersionOf(f) \in Versions(db.ledger) <=> RowsBy(f) # {})
    /\ \A i \in 1..Len(db.ledger) :
          db.ledger[i].version = VersionOf(db.ledger[i].by)
    /\ db.schema \subseteq UNION {EffectsOf(f) : f \in AllFiles}

\* A run has aborted inside a script whose first statement had succeeded,
\* after an earlier script was committed.
C1_Witness ==
    /\ pc = "Aborted"
    /\ fail.step = "exec"
    /\ fail.cmd > 1
    /\ db.ledger # <<>>
    /\ db.schema # {}

\* C2 as stated: after a run in which the second of a script's three
\* statements failed, the first is rolled back, the ledger holds no row of
\* that script's version, the third was never executed and no later script had
\* a statement executed.
C2_Original ==
    (pc = "Aborted" /\ fail.step = "exec" /\ fail.cmd = 2 /\ Len(sql_commands) = 3) =>
        /\ CommittedOf(fail.file) = {}
        /\ tx.effects = {}
        /\ VersionOf(fail.file) \notin Versions(db.ledger)
        /\ \A e \in executed :
              /\ e[1] = fail.file => e[2] <= fail.cmd
              /\ IndexOf(e[1]) <= IndexOf(fail.file)

\* C2, amended: after a run in which statement k of a script failed, the
\* statements before it are rolled back, the script has inserted no ledger row
\* and the ledger holds a row of its version only if the same run committed,
\* earlier, another file with the same version token; the statements after k
\* were never executed and no later script had a statement executed.
C2_FailedScript ==
    (fail.step = "exec") =>
        /\ \A e \in executed :
              /\ e[1] = fail.file => e[2] <= fail.cmd
              /\ IndexOf(e[1]) <= IndexOf(fail.file)
        /\ <<fail.file, fail.cmd>> \in executed
        /\ CommittedOf(fail.file) = {}
        /\ RowsBy(fail.file) = {}
        /\ \A i \in RowsOf(VersionOf(fail.file)) :
              /\ i \in NewRows
              /\ db.ledger[i].by # fail.file
              /\ IndexOf(db.ledger[i].by) < IndexOf(fail.file)
        /\ pc = "Aborted" => tx = EmptyTx

\* The second of three statements has failed, a later script was waiting and
\* the run has ended.
C2_Witness ==
    /\ pc = "Aborted"
    /\ fail = [step |-> "exec", file |-> F0c, cmd |-> 2]
    /\ <<F0c, 1>> \in executed
    /\ F3d \in Range(migration_files)

\* C3: a run that follows a run that ended Done, with no file added in
\* between, executes no script statement and inserts no ledger row, fails at
\* no script step and ends in Done unless the connection, the ledger table or
\* the listing fails; every script then has exactly one ledger row of its
\* version, its own when no other script shares its token.
C3_Idempotent ==
    (prevDone /\ ~added) =>
        /\ executed = {}
        /\ db.ledger = startLedger
        /\ tx.rows = <<>> /\ tx.effects = {}
        /\ fail.step \in {"none"} \cup SetupSteps
        /\ pc = "Aborted" => fail.step \in SetupSteps
        /\ \A f \in Scripts :
              /\ Cardinality(RowsOf(VersionOf(f))) = 1
              /\ SoleVersion(f) => /\ Cardinality(RowsBy(f)) = 1
                                   /\ CommittedOf(f) = EffectsOf(f)

\* The second of two runs in succession has ended Done over three scripts.
C3_Witness ==
    /\ prevDone /\ ~added
    /\ pc = "Done"
    /\ Cardinality(Scripts) >= 3
    /\ \A f \in Scripts : SoleVersion(f)

IsPrefix(a, b) == Len(a) <= Len(b) /\ SubSeq(b, 1, Len(a)) = a

\* C4: within a run the scripts are committed in strictly ascending order of
\* their file names, and when a script's ledger row is committed no script
\* that sorts after it has had a statement executed.
C4_AscendingOrder ==
    [][\A i \in (Len(db.ledger) + 1)..Len(db.ledger') :
          LET a == db.ledger'[i].by
          IN /\ \A e \in executed' : e[1] = a \/ LexLess(e[1], a)
             /\ \A j \in NewRows : LexLess(db.ledger[j].by, a)]_vars

\* One run has committed three scripts, two of them with statements.
C4_Witness ==
    /\ Len(db.ledger) >= Len(startLedger) + 3
    /\ \E e1, e2 \in executed : e1[1] # e2[1]

\* C5: a script whose version is in the ledger when the run starts has no
\* statement executed by the run, inserts no row and is no point of failure;
\* a run over scripts that are all in the ledger executes nothing, leaves the
\* ledger as it was and ends in Done unless the connection, the ledger table
\* or the listing fails.
C5_SkipApplied ==
    LET old == Versions(startLedger)
    IN /\ \A e \in executed : VersionOf(e[1]) \notin old
       /\ \A i \in NewRows : VersionOf(db.ledger[i].by) \notin old
       /\ \A i \in 1..Len(tx.rows) : tx.rows[i].version \notin old
       /\ fail.file # <<>> => VersionOf(fail.file) \notin old
       /\ IsPrefix(startLedger, db.ledger)
       /\ (~added /\ \A f \in Scripts : VersionOf(f) \in old) =>
             /\ executed = {}
             /\ db.ledger = startLedger
             /\ fail.step \in {"none"} \cup SetupSteps

\* The ledger held the versions of 0_c.sql and 1_a.sql, the directory those
\* two and 3_d.sql, and the run has ended Done having executed 3_d.sql alone.
C5_Witness ==
    /\ pc = "Done"
    /\ Versions(startLedger) = {VersionOf(F0c), VersionOf(F1a)}
    /\ Range(migration_files) = {F0c, F1a, F3d}
    /\ executed = EffectsOf(F3d)
    /\ executed # {}

\* C6: every script the loop has passed without skipping it is durable, with
\* its ledger row and all its statements, whatever happens to a later script;
\* the open transaction, and so what a rollback undoes, holds work of the
\* current script only.
C6_PerScriptTx ==
    /\ \A i \in 1..Len(migration_files) :
          LET g == migration_files[i]
          IN (i < fi /\ VersionOf(g) \notin applied_versions) =>
                /\ \E r \in NewRows : db.ledger[r].by = g
                /\ EffectsOf(g) \subseteq db.schema
    /\ \A e \in tx.effects : fi <= Len(migration_files) /\ e[1] = filename
    /\ \A i \in 1..Len(tx.rows) : fi <= Len(migration_files) /\ tx.rows[i].by = filename
    /\ \A e \in executed :
          e \in db.schema \/ (fi <= Len(migration_files) /\ e[1] = filename)
    /\ (fail.step \in ScriptSteps) =>
          /\ fi <= Len(migration_files) /\ fail.file = filename
          /\ pc = "Aborted" => executed \ db.schema \subseteq EffectsOf(fail.file)

\* A run has committed two scripts and has aborted in a third after its first
\* statement had succeeded.
C6_Witness ==
    /\ pc = "Aborted"
    /\ fail.step = "exec" /\ fail.cmd = 2
    /\ Len(db.ledger) >= Len(startLedger) + 2
    /\ fi = 3

NoDuplicateVersion ==
    \A i, j \in 1..Len(db.ledger) :
        db.ledger[i].version = db.ledger[j].version => i = j

\* C7: the ledger never holds a version twice, no step changes or removes a
\* row, and a row is added only by the commit of its script, one at a time.
C7_AppendOnly ==
    /\ []NoDuplicateVersion
    /\ [][/\ IsPrefix(db.ledger, db.ledger')
          /\ db.ledger' # db.ledger =>
                /\ pc = "commit"
                /\ db.ledger' = Append(db.ledger,
                                       [version |-> VersionOf(filename), by |-> filename])]_vars

\* A run has aborted at the insert of a version that a file of the same token
\* had put into the ledger, which holds two rows.
C7_Witness ==
    /\ pc = "Aborted"
    /\ fail.step = "insert"
    /\ VersionOf(fail.file) \in Versions(db.ledger)
    /\ Len(db.ledger) >= 2

\* C8: a run that has ended holds no open connection (none at all only when
\* connecting failed), and an open connection is always closed in the end.
C8_ConnectionReleased ==
    /\ [](Terminal => /\ conn # "open"
                      /\ conn = "none" <=> fail.step = "connect")
    /\ (conn = "open") ~> (conn = "closed")

\* A run has ended after the read of a script failed, its connection closed.
C8_Witness ==
    /\ pc = "Aborted"
    /\ fail.step = "read"
    /\ conn = "closed"

\* C9: every run that starts ends, in Done or in Aborted; in Done only if no
\* step failed, and then the version of every script of the list is in the
\* ledger; in Aborted only if a step failed, and after a rollback if the step
\* belonged to a script.
C9_Termination ==
    /\ [](pc = "Done" => /\ fail.step = "none" /\ err = "none"
                         /\ ~added => Range(migration_files) = Scripts
                         /\ \A f \in Range(migration_files) :
                               VersionOf(f) \in Versions(db.ledger))
    /\ [](pc = "Aborted" => /\ fail.step # "none" /\ err # "none"
                            /\ fail.step \in ScriptSteps =>
                                  rolledBack /\ tx = EmptyTx)
    /\ (pc = "connect") ~> Terminal

\* A run has aborted at the ledger insert of a script, rolled back.
C9_Witness ==
    /\ pc = "Aborted"
    /\ fail.step = "insert"
    /\ executed # {}
    /\ rolledBack

\* The text of the script holds nothing but terminators and white space.
BlankScript(f) ==
    \A i \in 1..Len(ScriptBody(f)) : ScriptBody(f)[i] \in {";", " "}

\* The loop of line 73 is at a pending script that holds no statement.
AtBlankScript ==
    /\ pc \in {"loop", "exec", "stmt_error", "insert", "commit"}
    /\ fi <= Len(migration_files)
    /\ BlankScript(filename)
    /\ ~AlreadyApplied(VersionOf(filename), applied_versions)

\* C10: a pending script that holds nothing but terminators and white space
\* has no statement executed and never fails at a statement: once read it
\* goes straight to the insert of its ledger row, the commit of that row
\* takes the loop to the next file, and once the loop has passed the script
\* its row is in the committed ledger.
C10_EmptyScript ==
    /\ [](\A f \in Scripts :
            BlankScript(f) =>
                /\ \A e \in executed : e[1] # f
                /\ fail.file = f => fail.step \in {"read", "insert", "commit"}
                /\ (IndexOf(f) # 0 /\ IndexOf(f) < fi
                    /\ VersionOf(f) \notin applied_versions) =>
                      \E r \in NewRows :
                          db.ledger[r] = [version |-> VersionOf(f), by |-> f])
    /\ [](AtBlankScript => pc \in {"loop", "insert", "commit"})
    /\ [][AtBlankScript =>
            /\ executed' = executed
            /\ (pc = "loop" /\ err' = "none") => pc' = "insert" /\ sql_commands' = <<>>
            /\ (pc = "commit" /\ err' = "none") =>
                  /\ pc' = "loop" /\ fi' = fi + 1
                  /\ db.ledger' = Append(db.ledger, [version |-> VersionOf(filename),
                                                      by |-> filename])]_vars

\* A run has committed the row of the blank script 2_e.sql and then the
\* script after it.
C10_Witness ==
    /\ \E r \in NewRows : db.ledger[r].by = F2e
    /\ \E r \in NewRows : db.ledger[r].by = F3d
    /\ executed = EffectsOf(F3d)

\* The positions of a run in which an exception is in flight or has left
\* apply_migrations.
Failing == {"stmt_error", "except", "finally", "Aborted"}

\* C11: the process exits with status 0 exactly when no step of the run
\* failed; an error raised by any step stays in flight until it leaves
\* apply_migrations, no later step of the normal path being taken.
C11_ExitStatus ==
    /\ Terminal => (ExitStatus(pc) = 0 <=> fail.step = "none")
    /\ fail.step # "none" => err # "none" /\ pc \in Failing
    /\ (fail.step = "none" /\ runs > 0) => err = "none" /\ pc \notin Failing \ {"finally"}

\* A run has exited with status 1 after the read of a script failed.
C11_Witness ==
    /\ Terminal
    /\ ExitStatus(pc) = 1
    /\ fail.step = "read"
    /\ err = "other"

\* C12 as stated: the error that leaves the run after a statement failed is
\* the database error wrapped with the script and the statement that failed.
C12_Original ==
    (pc = "Aborted" /\ fail.step = "exec") =>
        /\ err = "db"
        /\ errContext = [script |-> fail.file, statement |-> fail.cmd]

\* C12, amended: the error that leaves the run after a statement failed is
\* the database error itself, raised again unchanged: it carries neither the
\* script nor the statement.  The script is named by an error line the run has
\* printed; no error line names the statement.
C12_BareReraise ==
    (fail.step = "exec" /\ pc \in {"except", "finally", "Aborted"}) =>
        /\ err = "db"
        /\ errContext = NoContext
        /\ [script |-> fail.file, statement |-> 0] \in diag
        /\ \A l \in diag : l.statement = 0 /\ l.script \in {<<>>, fail.file}

\* A run has ended after the second statement of a script failed.
C12_Witness ==
    /\ pc = "Aborted"
    /\ fail.step = "exec"
    /\ fail.cmd = 2
    /\ err = "db"

\* C17: an open connection has autocommit off whether DATABASE_URL was set or
\* not, and the schema changes at the commit of line 104 only: a statement
\* the run has executed is durable only once its script's row is.
C17_ManualCommit ==
    /\ [](conn = "open" => database_url \in {"set", "unset"} /\ autocommit = FALSE)
    /\ [](\A e \in executed :
            e \in db.schema => \E r \in NewRows : db.ledger[r].by = e[1])
    /\ [][db.schema' # db.schema =>
            /\ pc = "commit" /\ pc' = "loop"
            /\ db.schema' = db.schema \cup EffectsOf(filename)]_vars

\* On the local default connection a script's statements have been executed
\* and wait, not durable, for the commit.
C17_Witness ==
    /\ database_url = "unset"
    /\ conn = "open"
    /\ pc = "commit"
    /\ tx.effects # {}
    /\ tx.effects \cap db.schema = {}

\* The directory holds no file whose name ends in .sql.
NoScriptFiles == dir \cap {F0c, F1a, F1b, F2e, F3d} = {}

\* C13: over a directory without migration files the listing yields the empty
\* list, the run executes no statement and inserts no row, fails at no step of
\* a script, and from the loop it goes on to end in Done.
C13_NoFiles ==
    /\ []((NoScriptFiles /\ runs > 0) =>
            /\ executed = {}
            /\ db.ledger = startLedger
            /\ tx.rows = <<>> /\ tx.effects = {}
            /\ migration_files = <<>>
            /\ fail.step \in {"none"} \cup SetupSteps
            /\ pc \notin {"exec", "stmt_error", "insert", "commit"})
    /\ [][(NoScriptFiles /\ pc = "listdir" /\ err' = "none") =>
            pc' = "loop" /\ migration_files' = <<>>]_vars
    /\ (NoScriptFiles /\ pc = "loop") ~> (pc = "Done")

\* A run over a directory that holds one file, not a script, has ended Done.
C13_Witness ==
    /\ pc = "Done"
    /\ dir = {F4n}
    /\ fail.step = "none"

\* The version of f sorts before a version the ledger held when the run began.
OutOfOrder(f) == \E v \in Versions(startLedger) : LexLess(VersionOf(f), v)

\* The versions of the ledger, in the order of their commits, do not ascend.
LedgerNotAscending ==
    \E a, b \in 1..Len(db.ledger) :
        a < b /\ LexLess(db.ledger[b].version, db.ledger[a].version)

\* C14: a pending script whose version sorts before a version already in the
\* ledger is read and run like any other (the loop neither skips nor rejects
\* it), and once the loop has passed it its statements and its row are
\* committed, the ledger then not being in ascending order of version.
C14_OutOfOrderApplied ==
    /\ [](\A i \in 1..Len(migration_files) :
            LET g == migration_files[i]
            IN (i < fi /\ VersionOf(g) \notin Versions(startLedger) /\ OutOfOrder(g)) =>
                  /\ \E r \in NewRows :
                        db.ledger[r] = [version |-> VersionOf(g), by |-> g]
                  /\ EffectsOf(g) \subseteq db.schema
                  /\ LedgerNotAscending)
    /\ [][(pc = "loop" /\ fi <= Len(migration_files)
           /\ VersionOf(filename) \notin Versions(startLedger) /\ OutOfOrder(filename)) =>
            \/ pc' \in {"exec", "insert"} /\ fi' = fi /\ err' = "none"
            \/ pc' = "except" /\ fail'.step = "read"]_vars

\* With version 1 in the ledger, a run has applied 0_c.sql and ended Done.
C14_Witness ==
    /\ pc = "Done"
    /\ VersionOf(F1a) \in Versions(startLedger)
    /\ \E r \in NewRows : db.ledger[r].by = F0c
    /\ EffectsOf(F0c) \subseteq db.schema

\* C15: the creation of the ledger table is committed alone, before the
\* ledger is read and before any statement of a script runs; the table is
\* there after any run that got past that commit, and no step removes it.
C15_TableCommitted ==
    /\ [](pc \in {"select", "listdir", "loop", "exec", "stmt_error", "insert", "commit"}
            => db.table)
    /\ [](pc = "commit_table" => tx.rows = <<>> /\ tx.effects = {} /\ executed = {})
    /\ []((runs > 0 /\ pc \in {"except", "finally", "Done", "Aborted"}
           /\ fail.step \notin {"connect", "create", "commit_table"}) => db.table)
    /\ [][db.table => db.table']_vars
    /\ [][db.table' # db.table => pc = "commit_table" /\ db.ledger' = db.ledger
                                  /\ db.schema' = db.schema]_vars

\* The first run has aborted in a script and rolled back; the table is there.
C15_Witness ==
    /\ runs = 1
    /\ pc = "Aborted"
    /\ fail.step = "exec"
    /\ rolledBack
    /\ db.table
    /\ db.ledger = <<>>

\* C16 as stated: after the read of a pending script failed the transaction
\* is rolled back, no statement of the script was executed, the run has
\* written no ledger row of its version, no later script was attempted and the
\* run is Aborted.
C16_Original ==
    (pc = "Aborted" /\ fail.step = "read") =>
        /\ rolledBack /\ tx = EmptyTx
        /\ \A e \in executed : e[1] # fail.file /\ IndexOf(e[1]) < IndexOf(fail.file)
        /\ \A r \in NewRows : db.ledger[r].version # VersionOf(fail.file)

\* C16, amended: after the read of a pending script failed, no statement of
\* the script and of no later script is executed, the script inserts no
\* ledger row (a row of its version is there only if the same run had
\* committed, earlier, another file with the same version token), the handler
\* rolls the transaction back and the run ends in Aborted.
C16_ReadFailure ==
    /\ [](fail.step = "read" =>
            /\ err = "other"
            /\ pc \in {"except", "finally", "Aborted"}
            /\ fi = IndexOf(fail.file)
            /\ \A e \in executed : e[1] # fail.file /\ IndexOf(e[1]) < IndexOf(fail.file)
            /\ RowsBy(fail.file) = {} /\ CommittedOf(fail.file) = {}
            /\ \A i \in RowsOf(VersionOf(fail.file)) :
                  /\ i \in NewRows
                  /\ db.ledger[i].by # fail.file
                  /\ IndexOf(db.ledger[i].by) < IndexOf(fail.file)
            /\ pc \in {"finally", "Aborted"} => rolledBack /\ tx = EmptyTx)
    /\ (fail.step = "read") ~> (pc = "Aborted")

\* The read of the second of three scripts has failed, the first being
\* committed, and the run has ended.
C16_Witness ==
    /\ pc = "Aborted"
    /\ fail.step = "read"
    /\ fi = 2
    /\ Len(migration_files) = 3
    /\ Len(db.ledger) = Len(startLedger) + 1
    /\ rolledBack

\* The ledger holds the version of f in a row that another file inserted.
Shadowed(f) ==
    \E r \in 1..Len(db.ledger) :
        db.ledger[r].version = VersionOf(f) /\ db.ledger[r].by # f

\* C18: applied_versions is set by the read of line 64-65 alone.  Of the files
\* of one run that share a version token the first in file name order is the
\* one committed; a later one comes to its insert with all its statements
\* executed and none durable, the insert fails, the run rolls back and ends
\* Aborted; and a file whose version another file has put into the ledger
\* never has a statement committed, later runs executing none of it.
C18_SharedVersion ==
    /\ [][applied_versions' # applied_versions => pc = "select" \/ pc' = "connect"]_vars
    /\ [](\A r \in NewRows : \A g \in Range(migration_files) :
            VersionOf(g) = db.ledger[r].version => ~LexLess(g, db.ledger[r].by))
    /\ []((pc = "insert" /\ Shadowed(filename)) =>
            /\ EffectsOf(filename) \subseteq executed
            /\ tx.effects = EffectsOf(filename)
            /\ UniqueViolation(db, tx, VersionOf(filename)))
    /\ [][(pc = "insert" /\ Shadowed(filename)) =>
            pc' = "except" /\ fail' = [step |-> "insert", file |-> filename, cmd |-> 0]]_vars
    /\ [](\A f \in Scripts :
            Shadowed(f) =>
                /\ CommittedOf(f) = {} /\ RowsBy(f) = {}
                /\ (fail.file = f /\ pc = "Aborted") => rolledBack /\ tx = EmptyTx
                /\ VersionOf(f) \in Versions(startLedger) =>
                      /\ \A e \in executed : e[1] # f
                      /\ fail.file # f)

\* With 1_a.sql and 1_b.sql pending, 1_a.sql was committed, the statements of
\* 1_b.sql were executed, its insert failed and the run has ended Aborted.
C18_Witness ==
    /\ pc = "Aborted"
    /\ fail = [step |-> "insert", file |-> F1b, cmd |-> 0]
    /\ EffectsOf(F1b) \subseteq executed
    /\ \E r \in NewRows : db.ledger[r].by = F1a
    /\ CommittedOf(F1b) = {}

\* A step of the process itself, not a turn of the scheduler, commits a script.
ScriptCommitted == pc = "commit" /\ pc' = "loop" /\ peer' = peer

\* C19: with two runs interleaved the committed ledger never holds a version
\* twice; a commit makes durable only statements and a version that were not
\* durable before, so no script is committed by both runs, and its statements
\* are durable all or none; a run whose insert finds the version committed
\* fails there, rolls back and ends Aborted with nothing of it durable.
C19_Interleaved ==
    /\ []NoDuplicateVersion
    /\ [](\A f \in AllFiles :
            /\ CommittedOf(f) \in {{}, EffectsOf(f)}
            /\ Cardinality(RowsBy(f)) <= 1
            /\ CommittedOf(f) # {} => RowsBy(f) # {})
    /\ [][ScriptCommitted =>
            /\ tx.effects \cap db.schema = {}
            /\ Versions(tx.rows) \cap Versions(db.ledger) = {}
            /\ db.ledger' = Append(db.ledger,
                                   [version |-> VersionOf(filename), by |-> filename])
            /\ db.schema' = db.schema \cup EffectsOf(filename)]_vars
    /\ [][(pc = "insert" /\ VersionOf(filename) \in Versions(db.ledger) /\ peer' = peer) =>
            pc' = "except" /\ fail'.step = "insert" /\ db' = db]_vars
    /\ []((fail.step = "insert" /\ pc \in {"finally", "Aborted"}) =>
            rolledBack /\ tx = EmptyTx)
    /\ []((peer.fail.step = "insert" /\ peer.pc \in {"finally", "Aborted"}) =>
            peer.rolledBack /\ peer.tx = EmptyTx)

\* Both runs have executed the statements of 1_a.sql; one has committed it,
\* the other's insert has failed and it has ended Aborted.
C19_Witness ==
    /\ pc = "Aborted"
    /\ fail = [step |-> "insert", file |-> F1a, cmd |-> 0]
    /\ EffectsOf(F1a) \subseteq executed
    /\ EffectsOf(F1a) \subseteq peer.executed
    /\ peer.pc = "Done"
    /\ runs = 2
    /\ RowsBy(F1a) # {}

====
